---- MODULE Spec2Model ----
(***************************************************************************)
(* The CYBEV back end and mobile bridge.                                   *)
(*                                                                         *)
(* Spec          real-time room fan-out of the API server (src/server.js,  *)
(*               the io.on('connection') block): the Socket.IO in-memory   *)
(*               adapter (room -> sockets, socket -> rooms), the status of *)
(*               each socket, and what every client has been sent so far   *)
(* PostCountSpec, PostTagSpec                                              *)
(*               the pre('save') hooks of the Post model                   *)
(* FollowSpec    the follower-count mirror of the User model               *)
(* SignupSpec    the username generation of the User model, two saves      *)
(*               running at the same time                                  *)
(* PushSpec      initializePushNotifications of the native bridge          *)
(* ProfileSpec   the authenticated routes of user-profile.routes.js        *)
(*                                                                         *)
(* Each specification runs one part of the program; the variables of the   *)
(* other parts hold NotRunning throughout.                                 *)
(***************************************************************************)
EXTENDS Integers, Sequences, FiniteSets, TLC

VARIABLES
    status,     \* socket id -> "idle" | "connected" | "disconnected"
    rooms,      \* adapter.rooms : room name -> set of socket ids
    sids,       \* adapter.sids  : socket id -> set of room names
    inbox,      \* socket id -> sequence of events emitted to that client
    nEvents,    \* number of inbound events handled so far
    crashed,    \* TRUE once an uncaught exception ended the process
    post,       \* a Post document in memory and as stored
    user,       \* a User document in memory (follower counts)
    signup,     \* the users collection and two User documents being saved
    push,       \* the native bridge and the push plugin
    http        \* the users collection behind the profile routes

socketVars == <<status, rooms, sids, inbox, nEvents, crashed>>

\* the variables of every part but the sockets
nonSocket == <<post, user, signup, push, http>>

vars == <<status, rooms, sids, inbox, nEvents, crashed, post, user, signup, push, http>>

\* the value a variable holds while its part of the program is not running
NotRunning == "not-running"

----------------------------------------------------------------------------
(* Bounds of the model *)

\* inbound events handled in one behaviour
MaxEvents == 3

\* socket ids (socket.id is unique per connection and never reused)
Conns == {"A", "B", "C"}

----------------------------------------------------------------------------
(* JavaScript values that clients put on the wire *)

Str(s) == [t |-> "string", v |-> s]

\* the value of an argument or of an object field that was not sent
Undefined == [t |-> "undefined", v |-> ""]

Obj(fields) == [t |-> "object", v |-> fields]

\* the identifiers clients name
IdStrings == {"x"}

IdArgs == {Str(s) : s \in IdStrings} \cup {Undefined}

Messages == {Str("hi"), Str("yo")}

Emojis == {Str("heart")}

UserIds == {Str("u1")}

TypingPayloads ==
    {Obj([conversationId |-> i, userId |-> u, isTyping |-> b]) :
        i \in IdArgs, u \in UserIds, b \in BOOLEAN} \cup {Undefined}

ChatPayloads ==
    {Obj([streamId |-> i, message |-> m]) : i \in IdArgs, m \in Messages}
        \cup {Undefined}

ReactionPayloads ==
    {Obj([streamId |-> i, emoji |-> e, userId |-> u]) :
        i \in IdArgs, e \in Emojis, u \in UserIds} \cup {Undefined}

\* `${value}` inside a template literal
TemplateStr(val) == IF val.t = "undefined" THEN "undefined" ELSE val.v

UserRoom(userId) == "user:" \o TemplateStr(userId)

\* faulty variant: the prefix of the user rooms copied to the conversations
ConversationRoom_UserPrefix(conversationId) == "user:" \o TemplateStr(conversationId)

ConversationRoom(conversationId) == "conversation:" \o TemplateStr(conversationId)

StreamRoom(streamId) == "stream:" \o TemplateStr(streamId)

\* every room name the adapter can hold: the three address spaces and the
\* room each socket joins under its own id on connection
RoomNames ==
    {UserRoom(i) : i \in IdArgs} \cup {ConversationRoom(i) : i \in IdArgs}
        \cup {StreamRoom(i) : i \in IdArgs} \cup Conns

\* destructuring ({ a, b }) of an argument: undefined cannot be destructured
Destructurable(payload) == payload.t # "undefined"

----------------------------------------------------------------------------
(* Socket.IO operations the handlers call *)

\* faulty variant: the join is never made
JoinRooms_Skip(rm, c, room) == rm

\* faulty variant: joining a room the socket is already in takes it out
JoinRooms_Toggle(rm, c, room) ==
    [rm EXCEPT ![room] = IF c \in @ THEN @ \ {c} ELSE @ \cup {c}]

\* socket.join(room): adapter.addAll
JoinRooms(rm, c, room) == [rm EXCEPT ![room] = @ \cup {c}]

JoinSids(sd, c, room) == [sd EXCEPT ![c] = @ \cup {room}]

\* faulty variant: the leave is never made
LeaveRooms_Skip(rm, c, room) == rm

\* faulty variant: the whole room is deleted
LeaveRooms_DropRoom(rm, c, room) == [rm EXCEPT ![room] = {}]

\* socket.leave(room): adapter.del
LeaveRooms(rm, c, room) == [rm EXCEPT ![room] = @ \ {c}]

\* faulty variant: the socket's own list of rooms is not updated
LeaveSids_Skip(sd, c, room) == sd

LeaveSids(sd, c, room) == [sd EXCEPT ![c] = @ \ {room}]

\* faulty variant: io.to(room) written for socket.to(room)
ToExceptSender_IoTo(rm, c, room) == rm[room]

\* faulty variant: socket.broadcast written for socket.to(room)
ToExceptSender_Broadcast(rm, c, room) == (UNION {rm[r] : r \in DOMAIN rm}) \ {c}

\* socket.to(room): every socket of the room except the sending one
ToExceptSender(rm, c, room) == rm[room] \ {c}

\* io.to(room): every socket of the room
ToAll(rm, room) == rm[room]

\* the packet of .emit(name, data), with the room it was sent to and the
\* socket whose event caused it
Packet(name, data, room, from) ==
    [name |-> name, data |-> data, room |-> room, from |-> from]

\* faulty variant: a packet overtakes the ones queued before it
Emit_Prepend(inb, recipients, packet) ==
    [c \in Conns |-> IF c \in recipients THEN <<packet>> \o inb[c] ELSE inb[c]]

\* .emit to a set of sockets: the packet is written to each, behind the
\* packets written to it before
Emit(inb, recipients, packet) ==
    [c \in Conns |-> IF c \in recipients THEN Append(inb[c], packet) ELSE inb[c]]

\* precondition of every handler: the socket is connected, the process runs
Handles(c) ==
    /\ ~crashed
    /\ status[c] = "connected"
    /\ nEvents < MaxEvents

\* an exception thrown inside a listener is not caught anywhere: the process
\* exits and every connection and room goes with it
UncaughtException ==
    /\ crashed' = TRUE
    /\ UNCHANGED nonSocket
    /\ status' = [c \in Conns |-> IF status[c] = "connected" THEN "disconnected" ELSE status[c]]
    /\ rooms' = [r \in RoomNames |-> {}]
    /\ sids' = [c \in Conns |-> {}]
    /\ nEvents' = nEvents + 1
    /\ UNCHANGED inbox

----------------------------------------------------------------------------
(* State after construction: the server listens, nobody is connected *)

Listening ==
    /\ status = [c \in Conns |-> "idle"]
    /\ rooms = [r \in RoomNames |-> {}]
    /\ sids = [c \in Conns |-> {}]
    /\ inbox = [c \in Conns |-> <<>>]
    /\ nEvents = 0
    /\ crashed = FALSE

Init ==
    /\ Listening
    /\ post = NotRunning
    /\ user = NotRunning
    /\ signup = NotRunning
    /\ push = NotRunning
    /\ http = NotRunning

----------------------------------------------------------------------------
(* Handlers *)

\* io.on('connection'): the socket is in the room named by its own id
Connect(c) ==
    /\ ~crashed
    /\ UNCHANGED nonSocket
    /\ status[c] = "idle"
    /\ status' = [status EXCEPT ![c] = "connected"]
    /\ rooms' = JoinRooms(rooms, c, c)
    /\ sids' = JoinSids(sids, c, c)
    /\ UNCHANGED <<inbox, nEvents, crashed>>

\* faulty variant: a user room that another socket is in is not joined
Join_FirstOwnerOnly(c, userId) ==
    /\ Handles(c)
    /\ UNCHANGED nonSocket
    /\ IF rooms[UserRoom(userId)] \subseteq {c}
       THEN /\ rooms' = JoinRooms(rooms, c, UserRoom(userId))
            /\ sids' = JoinSids(sids, c, UserRoom(userId))
       ELSE UNCHANGED <<rooms, sids>>
    /\ nEvents' = nEvents + 1
    /\ UNCHANGED <<status, inbox, crashed>>

\* socket.on('join')
Join(c, userId) ==
    /\ Handles(c)
    /\ UNCHANGED nonSocket
    /\ rooms' = JoinRooms(rooms, c, UserRoom(userId))
    /\ sids' = JoinSids(sids, c, UserRoom(userId))
    /\ nEvents' = nEvents + 1
    /\ UNCHANGED <<status, inbox, crashed>>

\* socket.on('join-conversation')
JoinConversation(c, conversationId) ==
    /\ Handles(c)
    /\ UNCHANGED nonSocket
    /\ rooms' = JoinRooms(rooms, c, ConversationRoom(conversationId))
    /\ sids' = JoinSids(sids, c, ConversationRoom(conversationId))
    /\ nEvents' = nEvents + 1
    /\ UNCHANGED <<status, inbox, crashed>>

\* socket.on('leave-conversation')
LeaveConversation(c, conversationId) ==
    /\ Handles(c)
    /\ UNCHANGED nonSocket
    /\ rooms' = LeaveRooms(rooms, c, ConversationRoom(conversationId))
    /\ sids' = LeaveSids(sids, c, ConversationRoom(conversationId))
    /\ nEvents' = nEvents + 1
    /\ UNCHANGED <<status, inbox, crashed>>

\* socket.on('typing')
Typing(c, payload) ==
    /\ Handles(c)
    /\ UNCHANGED nonSocket
    /\ IF Destructurable(payload)
       THEN LET room == ConversationRoom(payload.v.conversationId)
                data == [userId |-> payload.v.userId, isTyping |-> payload.v.isTyping]
            IN /\ inbox' = Emit(inbox, ToExceptSender(rooms, c, room),
                                Packet("user-typing", data, room, c))
               /\ nEvents' = nEvents + 1
               /\ UNCHANGED <<status, rooms, sids, crashed>>
       ELSE UncaughtException

\* faulty variant: the other viewers are not notified
JoinStream_NoNotify(c, streamId) ==
    /\ Handles(c)
    /\ UNCHANGED nonSocket
    /\ rooms' = JoinRooms(rooms, c, StreamRoom(streamId))
    /\ sids' = JoinSids(sids, c, StreamRoom(streamId))
    /\ nEvents' = nEvents + 1
    /\ UNCHANGED <<status, inbox, crashed>>

\* faulty variant: a viewer that is already in the room is not announced again
JoinStream_OncePerEntry(c, streamId) ==
    LET room == StreamRoom(streamId)
        joined == JoinRooms(rooms, c, room)
    IN /\ Handles(c)
       /\ UNCHANGED nonSocket
       /\ rooms' = joined
       /\ sids' = JoinSids(sids, c, room)
       /\ inbox' = IF c \in rooms[room]
                   THEN inbox
                   ELSE Emit(inbox, ToExceptSender(joined, c, room),
                             Packet("viewer-joined", [socketId |-> c], room, c))
       /\ nEvents' = nEvents + 1
       /\ UNCHANGED <<status, crashed>>

\* socket.on('join-stream')
JoinStream(c, streamId) ==
    LET room == StreamRoom(streamId)
        joined == JoinRooms(rooms, c, room)
    IN /\ Handles(c)
       /\ UNCHANGED nonSocket
       /\ rooms' = joined
       /\ sids' = JoinSids(sids, c, room)
       /\ inbox' = Emit(inbox, ToExceptSender(joined, c, room),
                        Packet("viewer-joined", [socketId |-> c], room, c))
       /\ nEvents' = nEvents + 1
       /\ UNCHANGED <<status, crashed>>

\* faulty variant: the leave is made but the viewers that stay are not told
\* in the same step
LeaveStream_NoNotify(c, streamId) ==
    /\ Handles(c)
    /\ UNCHANGED nonSocket
    /\ rooms' = LeaveRooms(rooms, c, StreamRoom(streamId))
    /\ sids' = LeaveSids(sids, c, StreamRoom(streamId))
    /\ nEvents' = nEvents + 1
    /\ UNCHANGED <<status, inbox, crashed>>

\* socket.on('leave-stream')
LeaveStream(c, streamId) ==
    LET room == StreamRoom(streamId)
        left == LeaveRooms(rooms, c, room)
    IN /\ Handles(c)
       /\ UNCHANGED nonSocket
       /\ rooms' = left
       /\ sids' = LeaveSids(sids, c, room)
       /\ inbox' = Emit(inbox, ToExceptSender(left, c, room),
                        Packet("viewer-left", [socketId |-> c], room, c))
       /\ nEvents' = nEvents + 1
       /\ UNCHANGED <<status, crashed>>

\* faulty variant: socket.to(room) written for io.to(room)
StreamChat_SocketTo(c, payload) ==
    /\ Handles(c)
    /\ UNCHANGED nonSocket
    /\ IF Destructurable(payload)
       THEN LET room == StreamRoom(payload.v.streamId)
            IN /\ inbox' = Emit(inbox, ToExceptSender(rooms, c, room),
                                Packet("chat-message", payload.v.message, room, c))
               /\ nEvents' = nEvents + 1
               /\ UNCHANGED <<status, rooms, sids, crashed>>
       ELSE UncaughtException

\* socket.on('stream-chat')
StreamChat(c, payload) ==
    /\ Handles(c)
    /\ UNCHANGED nonSocket
    /\ IF Destructurable(payload)
       THEN LET room == StreamRoom(payload.v.streamId)
            IN /\ inbox' = Emit(inbox, ToAll(rooms, room),
                                Packet("chat-message", payload.v.message, room, c))
               /\ nEvents' = nEvents + 1
               /\ UNCHANGED <<status, rooms, sids, crashed>>
       ELSE UncaughtException

\* faulty variant: reactions of sockets outside the stream room are dropped
StreamReaction_MembersOnly(c, payload) ==
    /\ Handles(c)
    /\ UNCHANGED nonSocket
    /\ IF Destructurable(payload)
       THEN LET room == StreamRoom(payload.v.streamId)
                data == [emoji |-> payload.v.emoji, userId |-> payload.v.userId]
            IN /\ inbox' = Emit(inbox, IF c \in rooms[room] THEN ToAll(rooms, room) ELSE {},
                                Packet("reaction", data, room, c))
               /\ nEvents' = nEvents + 1
               /\ UNCHANGED <<status, rooms, sids, crashed>>
       ELSE UncaughtException

\* socket.on('stream-reaction')
StreamReaction(c, payload) ==
    /\ Handles(c)
    /\ UNCHANGED nonSocket
    /\ IF Destructurable(payload)
       THEN LET room == StreamRoom(payload.v.streamId)
                data == [emoji |-> payload.v.emoji, userId |-> payload.v.userId]
            IN /\ inbox' = Emit(inbox, ToAll(rooms, room),
                                Packet("reaction", data, room, c))
               /\ nEvents' = nEvents + 1
               /\ UNCHANGED <<status, rooms, sids, crashed>>
       ELSE UncaughtException

\* faulty variant: the socket stays in its rooms
Disconnect_KeepsRooms(c) ==
    /\ ~crashed
    /\ UNCHANGED nonSocket
    /\ status[c] = "connected"
    /\ status' = [status EXCEPT ![c] = "disconnected"]
    /\ UNCHANGED <<rooms, sids, inbox, nEvents, crashed>>

\* faulty variant: closing a socket that is already closed throws
Disconnect_ThrowsWhenClosed(c) ==
    /\ ~crashed
    /\ UNCHANGED nonSocket
    /\ status[c] \in {"connected", "disconnected"}
    /\ IF status[c] = "connected"
       THEN /\ status' = [status EXCEPT ![c] = "disconnected"]
            /\ rooms' = [r \in RoomNames |-> rooms[r] \ {c}]
            /\ sids' = [sids EXCEPT ![c] = {}]
            /\ UNCHANGED <<inbox, nEvents, crashed>>
       ELSE UncaughtException

\* faulty variant: the viewers of the streams the socket was in are told
\* that it left
Disconnect_AnnouncesLeave(c) ==
    /\ ~crashed
    /\ UNCHANGED nonSocket
    /\ status[c] = "connected"
    /\ status' = [status EXCEPT ![c] = "disconnected"]
    /\ rooms' = [r \in RoomNames |-> rooms[r] \ {c}]
    /\ sids' = [sids EXCEPT ![c] = {}]
    /\ inbox' = Emit(inbox, rooms[StreamRoom(Str("x"))] \ {c},
                     Packet("viewer-left", [socketId |-> c], StreamRoom(Str("x")), c))
    /\ UNCHANGED <<nEvents, crashed>>

\* socket.on('disconnect'): Socket.IO has taken the socket out of all its
\* rooms before the listener runs; the listener itself only logs.  The close
\* of a socket that is already closed returns at once.
Disconnect(c) ==
    /\ ~crashed
    /\ UNCHANGED nonSocket
    /\ status[c] \in {"connected", "disconnected"}
    /\ IF status[c] = "connected"
       THEN /\ status' = [status EXCEPT ![c] = "disconnected"]
            /\ rooms' = [r \in RoomNames |-> rooms[r] \ {c}]
            /\ sids' = [sids EXCEPT ![c] = {}]
            /\ UNCHANGED <<inbox, nEvents, crashed>>
       ELSE UNCHANGED vars

Next ==
    \/ \E c \in Conns : Connect(c)
    \/ \E c \in Conns, userId \in IdArgs : Join(c, userId)
    \/ \E c \in Conns, conversationId \in IdArgs : JoinConversation(c, conversationId)
    \/ \E c \in Conns, conversationId \in IdArgs : LeaveConversation(c, conversationId)
    \/ \E c \in Conns, payload \in TypingPayloads : Typing(c, payload)
    \/ \E c \in Conns, streamId \in IdArgs : JoinStream(c, streamId)
    \/ \E c \in Conns, streamId \in IdArgs : LeaveStream(c, streamId)
    \/ \E c \in Conns, payload \in ChatPayloads : StreamChat(c, payload)
    \/ \E c \in Conns, payload \in ReactionPayloads : StreamReaction(c, payload)
    \/ \E c \in Conns : Disconnect(c)

Spec == Init /\ [][Next]_vars

----------------------------------------------------------------------------
(* The Post model (src/models/post.model.js)                               *)
(*                                                                         *)
(* A string is a sequence of one-character strings.  post.doc is the       *)
(* document in memory, post.db the arrays and counters as stored; an array *)
(* path that the query did not select is Undefined in memory.              *)

\* longest content and longest likes / comments array of the model
MaxContentLen == 4
MaxEntries == 2

Alphabet == {"#", "a", "A"}

Contents == UNION {[1..n -> Alphabet] : n \in 0..MaxContentLen}

\* \w of the regular expression
IsWordChar(ch) == ch \in {"a", "A"}

\* String.prototype.toLowerCase, character by character
LowerChar(ch) == IF ch = "A" THEN "a" ELSE ch

ToLowerCase(str) == [i \in 1..Len(str) |-> LowerChar(str[i])]

\* the end of the longest run of word characters that starts at position i
RECURSIVE WordEnd(_, _)
WordEnd(str, i) ==
    IF i < Len(str) /\ IsWordChar(str[i + 1]) THEN WordEnd(str, i + 1) ELSE i

\* content.match(/#(\w+)/g) from position i on: the matches, left to right,
\* none overlapping; <<>> stands for the null of no match
RECURSIVE MatchHashtags(_, _)
MatchHashtags(str, i) ==
    IF i > Len(str) THEN <<>>
    ELSE IF str[i] = "#" /\ i < Len(str) /\ IsWordChar(str[i + 1])
         THEN <<SubSeq(str, i, WordEnd(str, i + 1))>>
                  \o MatchHashtags(str, WordEnd(str, i + 1) + 1)
         ELSE MatchHashtags(str, i + 1)

\* tag.slice(1)
Slice1(str) == SubSeq(str, 2, Len(str))

\* [...new Set(array)]: the first occurrence of each element, in order
RECURSIVE NewSet(_)
NewSet(arr) ==
    IF arr = <<>> THEN <<>>
    ELSE LET front == NewSet(SubSeq(arr, 1, Len(arr) - 1))
             last == arr[Len(arr)]
         IN IF \E i \in 1..Len(front) : front[i] = last
            THEN front
            ELSE Append(front, last)

\* a JavaScript array value
Arr(seq) == [t |-> "array", v |-> seq]

\* a string is truthy unless it is empty
TruthyString(str) == str # <<>>

\* an array, even an empty one, is truthy; undefined is not
Truthy(val) == val.t # "undefined"

\* pre('save'), first hook: author and authorId mirror each other
SyncAuthor(doc) ==
    LET d1 == IF Truthy(doc.author) /\ ~Truthy(doc.authorId)
              THEN [doc EXCEPT !.authorId = doc.author] ELSE doc
    IN IF Truthy(d1.authorId) /\ ~Truthy(d1.author)
       THEN [d1 EXCEPT !.author = d1.authorId] ELSE d1

\* pre('save'), second hook: extract hashtags
ExtractHashtags(doc) ==
    IF doc.contentModified /\ TruthyString(doc.content)
    THEN LET matches == MatchHashtags(doc.content, 1)
         IN IF matches # <<>>
            THEN [doc EXCEPT !.hashtags =
                     NewSet([i \in 1..Len(matches) |-> ToLowerCase(Slice1(matches[i]))])]
            ELSE doc
    ELSE doc

\* faulty variant: only the likes are counted
UpdateCounts_LikesOnly(doc) ==
    IF Truthy(doc.likes) THEN [doc EXCEPT !.likeCount = Len(doc.likes.v)] ELSE doc

\* pre('save'), third hook: update counts (a path that was not selected is
\* undefined)
UpdateCounts(doc) ==
    LET d1 == IF Truthy(doc.likes)
              THEN [doc EXCEPT !.likeCount = Len(doc.likes.v)] ELSE doc
    IN IF Truthy(d1.comments)
       THEN [d1 EXCEPT !.commentCount = Len(d1.comments.v)] ELSE d1

\* what save() writes to the stored arrays and counters: every path held in
\* memory; a path that was not selected keeps its stored value
Persist(doc, db) ==
    [likes |-> IF Truthy(doc.likes) THEN doc.likes ELSE db.likes,
     comments |-> IF Truthy(doc.comments) THEN doc.comments ELSE db.comments,
     likeCount |-> doc.likeCount,
     commentCount |-> doc.commentCount]

\* the arrays of likes / comments, with "e" for an entry
Arrays == {Arr(seq) : seq \in UNION {[1..n -> {"e"}] : n \in 0..MaxEntries}}

\* the stored arrays and counters of a post; the counters are whatever
\* earlier writes left there
StoredPosts ==
    [likes : Arrays, comments : Arrays,
     likeCount : 0..MaxEntries, commentCount : 0..MaxEntries]

\* the document a query returned: the arrays only when withLikes /
\* withComments say the query selected them
Loaded(db, withLikes, withComments, author, authorId) ==
    [content |-> <<"a">>,
     hashtags |-> <<>>,
     author |-> author,
     authorId |-> authorId,
     likes |-> IF withLikes THEN db.likes ELSE Undefined,
     comments |-> IF withComments THEN db.comments ELSE Undefined,
     likeCount |-> db.likeCount,
     commentCount |-> db.commentCount,
     contentModified |-> FALSE]

\* new Post({content, authorId}): the defaults of the schema
NewPost(content) ==
    [content |-> content,
     hashtags |-> <<>>,
     author |-> Undefined,
     authorId |-> Str("u1"),
     likes |-> Arr(<<>>),
     comments |-> Arr(<<>>),
     likeCount |-> 0,
     commentCount |-> 0,
     contentModified |-> TRUE]

\* the parts that a Post specification does not run
PostAlone ==
    /\ Listening
    /\ user = NotRunning
    /\ signup = NotRunning
    /\ push = NotRunning
    /\ http = NotRunning

nonPost == <<socketVars, user, signup, push, http>>

\* post.content = str (the path is modified when the value differs)
SetContent(str) ==
    /\ post.doc.content # str
    /\ post' = [post EXCEPT !.doc.content = str,
                            !.doc.contentModified = TRUE,
                            !.saved = FALSE]
    /\ UNCHANGED nonPost

\* post.likes.push(...)
PushLike ==
    /\ Truthy(post.doc.likes)
    /\ Len(post.doc.likes.v) < MaxEntries
    /\ post' = [post EXCEPT !.doc.likes.v = Append(@, "e"), !.saved = FALSE]
    /\ UNCHANGED nonPost

\* post.likes.pop()
PopLike ==
    /\ Truthy(post.doc.likes)
    /\ post.doc.likes.v # <<>>
    /\ post' = [post EXCEPT !.doc.likes.v = SubSeq(@, 1, Len(@) - 1), !.saved = FALSE]
    /\ UNCHANGED nonPost

\* post.comments.push(...)
PushComment ==
    /\ Truthy(post.doc.comments)
    /\ Len(post.doc.comments.v) < MaxEntries
    /\ post' = [post EXCEPT !.doc.comments.v = Append(@, "e"), !.saved = FALSE]
    /\ UNCHANGED nonPost

\* post.save(): validation (content is required), the three hooks in the
\* order they were registered, then the write
SavePost ==
    /\ TruthyString(post.doc.content)
    /\ LET doc == UpdateCounts(ExtractHashtags(SyncAuthor(post.doc)))
       IN post' = [doc |-> [doc EXCEPT !.contentModified = FALSE],
                   db |-> Persist(doc, post.db),
                   saved |-> TRUE]
    /\ UNCHANGED nonPost

\* save() of a post without content: the validation rejects it, no hook
\* runs and nothing is written
SavePostRejected ==
    /\ ~TruthyString(post.doc.content)
    /\ UNCHANGED vars

\* a stored post is loaded, with or without its arrays
PostCountInit ==
    /\ PostAlone
    /\ \E db \in StoredPosts, withLikes \in BOOLEAN, withComments \in BOOLEAN,
          author \in {Str("u1"), Undefined} :
          post = [doc |-> Loaded(db, withLikes, withComments, author, Str("u1")),
                  db |-> db, saved |-> FALSE]

PostCountNext ==
    \/ PushLike
    \/ PopLike
    \/ PushComment
    \/ SavePost

PostCountSpec == PostCountInit /\ [][PostCountNext]_vars

\* a new post is written and edited
PostTagInit ==
    /\ PostAlone
    /\ \E content \in Contents :
          post = [doc |-> NewPost(content),
                  db |-> [likes |-> Arr(<<>>), comments |-> Arr(<<>>),
                          likeCount |-> 0, commentCount |-> 0],
                  saved |-> FALSE]

PostTagNext ==
    \/ \E str \in Contents : SetContent(str)
    \/ SavePost
    \/ SavePostRejected

PostTagSpec == PostTagInit /\ [][PostTagNext]_vars

----------------------------------------------------------------------------
(* The User model: follower counts (src/unnamed/part_001)                  *)

\* largest follower count of the model
MaxFollowers == 5

\* this[path] = val: the path is modified when the value differs
Assign(doc, path, val) ==
    IF doc[path] = val
    THEN doc
    ELSE [doc EXCEPT ![path] = val, !.modified = @ \cup {path}]

\* faulty variant: followersCount is not copied back
SyncFollowerCounts_OneWay(doc) ==
    IF "followerCount" \in doc.modified
    THEN Assign(doc, "followersCount", doc.followerCount)
    ELSE doc

\* pre('save'): sync followerCount and followersCount
SyncFollowerCounts(doc) ==
    LET d1 == IF "followerCount" \in doc.modified
              THEN Assign(doc, "followersCount", doc.followerCount)
              ELSE doc
    IN IF "followersCount" \in d1.modified
       THEN Assign(d1, "followerCount", d1.followersCount)
       ELSE d1

\* the hooks registered before the mirror return at their guards: the
\* password is not modified, the username is set, the document is not new
EarlierHooksReturn(doc) ==
    /\ "password" \notin doc.modified
    /\ doc.username # ""
    /\ ~doc.isNew

\* a stored user as a query returns it
FollowInit ==
    /\ Listening
    /\ post = NotRunning
    /\ user = [followerCount |-> 0, followersCount |-> 0, username |-> "u",
               isNew |-> FALSE, modified |-> {}, saved |-> FALSE]
    /\ signup = NotRunning
    /\ push = NotRunning
    /\ http = NotRunning

nonUser == <<socketVars, post, signup, push, http>>

\* user.followerCount = n
SetFollowerCount(n) ==
    /\ user.followerCount # n
    /\ user' = [Assign(user, "followerCount", n) EXCEPT !.saved = FALSE]
    /\ UNCHANGED nonUser

\* user.followersCount = n
SetFollowersCount(n) ==
    /\ user.followersCount # n
    /\ user' = [Assign(user, "followersCount", n) EXCEPT !.saved = FALSE]
    /\ UNCHANGED nonUser

\* user.save(): the hooks, then the write, after which no path is modified
SaveUser ==
    /\ EarlierHooksReturn(user)
    /\ user' = [SyncFollowerCounts(user) EXCEPT !.modified = {}, !.saved = TRUE]
    /\ UNCHANGED nonUser

FollowNext ==
    \/ \E n \in 0..MaxFollowers : SetFollowerCount(n)
    \/ \E n \in 0..MaxFollowers : SetFollowersCount(n)
    \/ SaveUser

FollowSpec == FollowInit /\ [][FollowNext]_vars

----------------------------------------------------------------------------
(* The User model: username generation (src/unnamed/part_001)              *)
(*                                                                         *)
(* signup.db is the set of usernames stored in the users collection;       *)
(* signup.docs holds two new User documents without a username whose       *)
(* saves run at the same time.  Every await is a point where the other     *)
(* save can run.                                                           *)

Docs == {"d1", "d2"}

\* e-mail addresses, as sequences of characters
Emails == {<<"j", "@", "a">>, <<"J", ".", "@", "b">>, <<"k", "@", "a">>}

\* usernames that may be taken before the two saves start
TakenBefore == {"j", "j1", "k"}

\* email.split('@')[0]
RECURSIVE BeforeAt(_)
BeforeAt(str) ==
    IF str = <<>> \/ Head(str) = "@" THEN <<>> ELSE <<Head(str)>> \o BeforeAt(Tail(str))

\* toLowerCase() on the characters of the e-mail addresses
LowerEmailChar(ch) == IF ch = "J" THEN "j" ELSE ch

\* .replace(/[^a-z0-9]/g, ''), and the characters put together as a string
RECURSIVE KeepAlnum(_)
KeepAlnum(str) ==
    IF str = <<>> THEN ""
    ELSE (IF Head(str) \in {"j", "k", "a", "b"} THEN Head(str) ELSE "") \o KeepAlnum(Tail(str))

BaseUsername(email) ==
    KeepAlnum([i \in 1..Len(BeforeAt(email)) |-> LowerEmailChar(BeforeAt(email)[i])])

\* `${baseUsername}${counter}`
Suffixed(base, counter) == base \o ToString(counter)

SignupInit ==
    /\ Listening
    /\ post = NotRunning
    /\ user = NotRunning
    /\ \E db \in SUBSET TakenBefore, e1 \in Emails, e2 \in Emails :
          /\ e1 # e2
          /\ signup = [db |-> db,
                       docs |-> [d \in Docs |->
                                   [email |-> IF d = "d1" THEN e1 ELSE e2,
                                    username |-> "",
                                    candidate |-> "",
                                    counter |-> 0,
                                    pc |-> "new"]]]
    /\ push = NotRunning
    /\ http = NotRunning

nonSignup == <<socketVars, post, user, push, http>>

\* save() enters the hook: !this.username && this.email holds, the base
\* name is the first candidate and the counter starts at 1
BeginGenerate(d) ==
    /\ signup.docs[d].pc = "new"
    /\ signup.docs[d].username = "" /\ signup.docs[d].email # <<>>
    /\ signup' = [signup EXCEPT !.docs[d].candidate = BaseUsername(signup.docs[d].email),
                                !.docs[d].counter = 1,
                                !.docs[d].pc = "find"]
    /\ UNCHANGED nonSignup

\* one await findOne({ username }) of the loop and what follows it up to the
\* next await: the next candidate, or the end of the loop and of the hook
FindOne(d) ==
    /\ signup.docs[d].pc = "find"
    /\ IF signup.docs[d].candidate \in signup.db
       THEN signup' = [signup EXCEPT
                          !.docs[d].candidate =
                              Suffixed(BaseUsername(signup.docs[d].email), signup.docs[d].counter),
                          !.docs[d].counter = @ + 1]
       ELSE signup' = [signup EXCEPT !.docs[d].username = signup.docs[d].candidate,
                                     !.docs[d].pc = "insert"]
    /\ UNCHANGED nonSignup

\* the insert: username is a unique index, a second document with a stored
\* username is refused with a duplicate key error
Insert(d) ==
    /\ signup.docs[d].pc = "insert"
    /\ IF signup.docs[d].username \in signup.db
       THEN signup' = [signup EXCEPT !.docs[d].pc = "rejected"]
       ELSE signup' = [signup EXCEPT !.db = @ \cup {signup.docs[d].username},
                                     !.docs[d].pc = "saved"]
    /\ UNCHANGED nonSignup

SignupNext ==
    \/ \E d \in Docs : BeginGenerate(d)
    \/ \E d \in Docs : FindOne(d)
    \/ \E d \in Docs : Insert(d)

SignupSpec == SignupInit /\ [][SignupNext]_vars

----------------------------------------------------------------------------
(* The native bridge: initializePushNotifications (src/www/native-bridge.js)*)
(*                                                                         *)
(* push.pc is the position of the async function, push.perm the permission *)
(* the platform holds, push.emitted the registration tokens the platform   *)
(* has emitted, push.dispatched the tokens of the cybev:pushToken events   *)
(* dispatched on window.  A plugin event that finds no listener is kept    *)
(* for the first listener on a platform that retains events                *)
(* (push.retains), and is lost on one that does not.                       *)

\* registration events the platform emits in one behaviour
MaxTokens == 3

PushTokens == {"t1", "t2"}

Permissions == {"prompt", "granted", "denied"}

PushInit ==
    /\ Listening
    /\ post = NotRunning
    /\ user = NotRunning
    /\ signup = NotRunning
    /\ \E perm \in Permissions, retains \in BOOLEAN :
          push = [pc |-> "checkPermissions", perm |-> perm, retains |-> retains,
                  registerCalled |-> FALSE, listening |-> FALSE,
                  emitted |-> <<>>, retained |-> <<>>, dispatched |-> <<>>,
                  result |-> "pending"]
    /\ http = NotRunning

nonPush == <<socketVars, post, user, signup, http>>

\* await PushNotifications.checkPermissions() and the tests that follow
CheckPermissions ==
    /\ push.pc = "checkPermissions"
    /\ push' = IF push.perm = "prompt"
               THEN [push EXCEPT !.pc = "requestPermissions"]
               ELSE IF push.perm # "granted"
                    THEN [push EXCEPT !.pc = "returned", !.result = "null"]
                    ELSE [push EXCEPT !.pc = "register"]
    /\ UNCHANGED nonPush

\* await PushNotifications.requestPermissions(): the user answers
RequestPermissions(answer) ==
    /\ push.pc = "requestPermissions"
    /\ push' = IF answer # "granted"
               THEN [push EXCEPT !.perm = answer, !.pc = "returned", !.result = "null"]
               ELSE [push EXCEPT !.perm = answer, !.pc = "register"]
    /\ UNCHANGED nonPush

\* PushNotifications.register() is called; the function awaits its promise
Register ==
    /\ push.pc = "register"
    /\ push' = [push EXCEPT !.registerCalled = TRUE, !.pc = "awaitRegister"]
    /\ UNCHANGED nonPush

\* register() has resolved: the four addListener calls, return true.  The
\* events the platform retained go to the new 'registration' listener.
AddListeners ==
    /\ push.pc = "awaitRegister"
    /\ push' = [push EXCEPT !.listening = TRUE,
                            !.dispatched = @ \o push.retained,
                            !.retained = <<>>,
                            !.pc = "returned", !.result = "true"]
    /\ UNCHANGED nonPush

\* the platform emits 'registration' with a token: the listener, when there
\* is one, dispatches cybev:pushToken with the token
Registration(token) ==
    /\ push.registerCalled
    /\ Len(push.emitted) < MaxTokens
    /\ push' = IF push.listening
               THEN [push EXCEPT !.emitted = Append(@, token),
                                 !.dispatched = Append(@, token)]
               ELSE IF push.retains
                    THEN [push EXCEPT !.emitted = Append(@, token),
                                      !.retained = Append(@, token)]
                    ELSE [push EXCEPT !.emitted = Append(@, token)]
    /\ UNCHANGED nonPush

PushNext ==
    \/ CheckPermissions
    \/ \E answer \in {"granted", "denied"} : RequestPermissions(answer)
    \/ Register
    \/ AddListeners
    \/ \E token \in PushTokens : Registration(token)

PushSpec == PushInit /\ [][PushNext]_vars

----------------------------------------------------------------------------
(* The profile routes (src/routes/user-profile.routes.js)                  *)
(*                                                                         *)
(* http.store is the users collection (user id -> document), http.now the  *)
(* time, counted in requests, http.req the last request and http.status    *)
(* the status code of the response to it.  The User schema has timestamps: *)
(* findByIdAndUpdate sets updatedAt of the document it updates.            *)

\* requests handled in one behaviour
MaxRequests == 2

\* ids of the stored users
StoredIds == {"u1", "u2"}

\* ids a token can carry: the stored ones and one of no stored user
TokenIds == StoredIds \cup {"u9"}

\* fields PUT /profile can set, and the fields of a document in the model
ProfileFields == {"name", "bio", "location", "website"}

DocFields == ProfileFields \cup {"avatar", "coverImage", "updatedAt"}

\* a token: whether jwt.verify accepts it, and the id of its payload
JwtTokens == [present : {TRUE}, verifies : BOOLEAN, id : TokenIds]

NoToken == [present |-> FALSE, verifies |-> FALSE, id |-> ""]

\* the Authorization header split at the blanks; <<>> when there is none
AuthHeaders ==
    {<<>>, <<"Bearer">>} \cup {<<"Bearer", token>> : token \in JwtTokens}

\* req.body of PUT /profile: any of the four fields, each with a new value
Bodies == UNION {[present -> {"new"}] : present \in SUBSET ProfileFields}

\* req.file and the upload: no file, an image that is uploaded, an image
\* whose upload fails
Files == {"none", "image", "upload-error"}

Routes == {"POST /upload-cover", "POST /upload-avatar", "PUT /profile", "DELETE /cover"}

\* a request has a body on PUT /profile and a file on the upload routes
Requests ==
    [route : {"PUT /profile"}, auth : AuthHeaders, body : Bodies, file : {"none"}]
    \cup [route : {"POST /upload-cover", "POST /upload-avatar"}, auth : AuthHeaders,
          body : {<< >>}, file : Files]
    \cup [route : {"DELETE /cover"}, auth : AuthHeaders, body : {<< >>}, file : {"none"}]

NoRequest == [route |-> "none", auth |-> <<>>, body |-> << >>, file |-> "none"]

\* req.headers.authorization?.split(' ')[1]
TokenOf(auth) == IF Len(auth) >= 2 THEN auth[2] ELSE NoToken

\* faulty variant: the payload is decoded, the signature is not verified
VerifyToken_DecodeOnly(auth) ==
    IF ~TokenOf(auth).present
    THEN [status |-> 401, user |-> NoToken]
    ELSE [status |-> 0, user |-> TokenOf(auth)]

\* verifyToken: 401 without token or with a token jwt.verify throws on,
\* else req.user = decoded and next() (status 0: no response yet)
VerifyToken(auth) ==
    IF ~TokenOf(auth).present
    THEN [status |-> 401, user |-> NoToken]
    ELSE IF TokenOf(auth).verifies
         THEN [status |-> 0, user |-> TokenOf(auth)]
         ELSE [status |-> 401, user |-> NoToken]

\* faulty variant: a field absent from the body is written as empty
UpdateFields_AllFour(body) ==
    [f \in ProfileFields |-> IF f \in DOMAIN body THEN body[f] ELSE ""]

\* const updateFields = {}; if (name !== undefined) updateFields.name = name; ...
UpdateFields(body) == [f \in DOMAIN body \cap ProfileFields |-> body[f]]

\* User.findByIdAndUpdate(id, update, { new: true }): the store afterwards
FindByIdAndUpdate(store, id, update, now) ==
    IF id \in DOMAIN store
    THEN [store EXCEPT ![id] =
             [f \in DocFields |->
                 IF f \in DOMAIN update THEN update[f]
                 ELSE IF f = "updatedAt" THEN now
                 ELSE store[id][f]]]
    ELSE store

\* the status of the response after findByIdAndUpdate: if (!user) 404
Found(store, id) == IF id \in DOMAIN store THEN 200 ELSE 404

\* the update a route makes once the request is authenticated, or the
\* status with which it answers before any update
RouteUpdate(req) ==
    CASE req.route = "PUT /profile" -> [status |-> 0, update |-> UpdateFields(req.body)]
      [] req.route = "DELETE /cover" -> [status |-> 0, update |-> [f \in {"coverImage"} |-> ""]]
      [] req.route = "POST /upload-cover" ->
            IF req.file = "none" THEN [status |-> 400, update |-> << >>]
            ELSE IF req.file = "upload-error" THEN [status |-> 500, update |-> << >>]
            ELSE [status |-> 0, update |-> [f \in {"coverImage"} |-> "new"]]
      [] req.route = "POST /upload-avatar" ->
            IF req.file = "none" THEN [status |-> 400, update |-> << >>]
            ELSE IF req.file = "upload-error" THEN [status |-> 500, update |-> << >>]
            ELSE [status |-> 0, update |-> [f \in {"avatar"} |-> "new"]]

ProfileInit ==
    /\ Listening
    /\ post = NotRunning
    /\ user = NotRunning
    /\ signup = NotRunning
    /\ push = NotRunning
    /\ http = [store |-> [id \in StoredIds |->
                            [f \in DocFields |-> IF f = "updatedAt" THEN 0 ELSE "old"]],
               now |-> 0,
               req |-> NoRequest,
               status |-> 0]

nonHttp == <<socketVars, post, user, signup, push>>

\* one request, from verifyToken to the response
HandleRequest(req) ==
    /\ http.now < MaxRequests
    /\ LET now == http.now + 1
           auth == VerifyToken(req.auth)
           step == RouteUpdate(req)
       IN http' =
            IF auth.status # 0
            THEN [http EXCEPT !.now = now, !.req = req, !.status = auth.status]
            ELSE IF step.status # 0
                 THEN [http EXCEPT !.now = now, !.req = req, !.status = step.status]
                 ELSE [store |-> FindByIdAndUpdate(http.store, auth.user.id, step.update, now),
                       now |-> now,
                       req |-> req,
                       status |-> Found(http.store, auth.user.id)]
    /\ UNCHANGED nonHttp

ProfileNext == \E req \in Requests : HandleRequest(req)

ProfileSpec == ProfileInit /\ [][ProfileNext]_vars

----------------------------------------------------------------------------
(* Vocabulary of the properties *)

\* the packets written to client c by the step under consideration
NewPackets(c) == SubSeq(inbox'[c], Len(inbox[c]) + 1, Len(inbox'[c]))

\* the step writes exactly one packet to c, behind those it already has
ReceivesOne(c, packet) == inbox'[c] = Append(inbox[c], packet)

ReceivesNothing(c) == inbox'[c] = inbox[c]

StreamRooms == {StreamRoom(i) : i \in IdArgs}

ConversationRooms == {ConversationRoom(i) : i \in IdArgs}

UserRooms == {UserRoom(i) : i \in IdArgs}

TypingOn == [userId |-> Str("u1"), isTyping |-> TRUE]

TypingOff == [userId |-> Str("u1"), isTyping |-> FALSE]

----------------------------------------------------------------------------
(* C1: right after a join, join-conversation or join-stream event of       *)
(* connection c for a room is handled, the room is in c's membership set   *)
(* and c is in the room's member set.                                      *)
C1_JoinMakesMember ==
    [][\A c \in Conns : Handles(c) => \A id \in IdArgs :
          /\ Join(c, id) =>
                (UserRoom(id) \in sids'[c] /\ c \in rooms'[UserRoom(id)])
          /\ JoinConversation(c, id) =>
                (ConversationRoom(id) \in sids'[c] /\ c \in rooms'[ConversationRoom(id)])
          /\ JoinStream(c, id) =>
                (StreamRoom(id) \in sids'[c] /\ c \in rooms'[StreamRoom(id)])]_vars

\* the three kinds of join have been handled, for three connections
C1_Witness ==
    /\ nEvents = 3
    /\ "A" \in rooms["user:x"] /\ "user:x" \in sids["A"]
    /\ "B" \in rooms["conversation:x"] /\ "conversation:x" \in sids["B"]
    /\ "C" \in rooms["stream:x"] /\ "stream:x" \in sids["C"]

(* C2: once connection c has disconnected it is a member of no room, and   *)
(* no packet of any later broadcast is written to it.                      *)
C2_DisconnectLeavesAll ==
    [][\A c \in Conns :
          /\ Disconnect(c) => status'[c] = "disconnected"
          /\ status'[c] = "disconnected" =>
                (sids'[c] = {} /\ \A r \in RoomNames : c \notin rooms'[r])
          /\ status[c] = "disconnected" => ReceivesNothing(c)]_vars

\* A was in stream:x (it was told of B's arrival) and disconnected; the chat
\* message B sent to stream:x afterwards reached B alone
C2_Witness ==
    /\ status["A"] = "disconnected"
    /\ ~crashed
    /\ nEvents = 3
    /\ inbox["A"] = <<Packet("viewer-joined", [socketId |-> "B"], "stream:x", "B")>>
    /\ inbox["B"] = <<Packet("chat-message", Str("hi"), "stream:x", "B")>>

(* C3: a typing event of connection c for a conversation writes one        *)
(* user-typing packet to every other member of the conversation room and   *)
(* none to c, whether or not c is itself a member.                         *)
C3_TypingExcludesSender ==
    [][\A c \in Conns : Handles(c) => \A p \in TypingPayloads :
          (Destructurable(p) /\ Typing(c, p)) =>
              /\ ReceivesNothing(c)
              /\ \A m \in rooms[ConversationRoom(p.v.conversationId)] \ {c} :
                    ReceivesOne(m, Packet("user-typing",
                        [userId |-> p.v.userId, isTyping |-> p.v.isTyping],
                        ConversationRoom(p.v.conversationId), c))]_vars

\* A and B are in conversation:x and A's typing reached B, not A
C3_Witness ==
    /\ rooms["conversation:x"] = {"A", "B"}
    /\ nEvents = 3
    /\ inbox["B"] = <<Packet("user-typing", TypingOn, "conversation:x", "A")>>
    /\ inbox["A"] = <<>>

\* the typing of A, not in the room, reached its two members
C3_WitnessOutsider ==
    /\ rooms["conversation:x"] = {"B", "C"}
    /\ nEvents = 3
    /\ inbox["B"] = <<Packet("user-typing", TypingOn, "conversation:x", "A")>>
    /\ inbox["C"] = inbox["B"]
    /\ inbox["A"] = <<>>

(* C4: a stream-chat or stream-reaction event for a stream writes one      *)
(* packet to every member of the stream room, the sender included when it  *)
(* is a member; the chat-message packet carries the message as sent.       *)
C4_EchoToAllMembers ==
    [][\A c \in Conns : Handles(c) =>
          /\ \A p \in ChatPayloads :
                (Destructurable(p) /\ StreamChat(c, p)) =>
                    \A m \in rooms[StreamRoom(p.v.streamId)] :
                        ReceivesOne(m, Packet("chat-message", p.v.message,
                                              StreamRoom(p.v.streamId), c))
          /\ \A p \in ReactionPayloads :
                (Destructurable(p) /\ StreamReaction(c, p)) =>
                    \A m \in rooms[StreamRoom(p.v.streamId)] :
                        ReceivesOne(m, Packet("reaction",
                            [emoji |-> p.v.emoji, userId |-> p.v.userId],
                            StreamRoom(p.v.streamId), c))]_vars

\* A, alone in stream:x, got its own "hi" back
C4_Witness ==
    /\ rooms["stream:x"] = {"A"}
    /\ nEvents = 2
    /\ inbox["A"] = <<Packet("chat-message", Str("hi"), "stream:x", "A")>>

(* C5: when connection c sends join-stream, every connection already in    *)
(* the stream room is written exactly one viewer-joined packet carrying    *)
(* c's socket id, and c itself is written nothing.                         *)
C5_ViewerJoined ==
    [][\A c \in Conns : Handles(c) => \A id \in IdArgs :
          JoinStream(c, id) =>
              /\ ReceivesNothing(c)
              /\ \A m \in rooms[StreamRoom(id)] \ {c} :
                    ReceivesOne(m, Packet("viewer-joined", [socketId |-> c],
                                          StreamRoom(id), c))]_vars

\* B was in stream:x when A joined: B was told, A was not
C5_Witness ==
    /\ rooms["stream:x"] = {"A", "B"}
    /\ nEvents = 2
    /\ inbox["B"] = <<Packet("viewer-joined", [socketId |-> "A"], "stream:x", "A")>>
    /\ inbox["A"] = <<>>

(* C6: when a member c of a stream room sends leave-stream, c is out of    *)
(* the room, every remaining member is written one viewer-left packet with *)
(* c's socket id and c none; and no step writes a packet of a stream room  *)
(* to a connection that is outside that room after the step.               *)
C6_LeaveStream ==
    [][\A c \in Conns, id \in IdArgs :
          /\ (Handles(c) /\ c \in rooms[StreamRoom(id)] /\ LeaveStream(c, id)) =>
                /\ c \notin rooms'[StreamRoom(id)]
                /\ StreamRoom(id) \notin sids'[c]
                /\ ReceivesNothing(c)
                /\ \A m \in rooms[StreamRoom(id)] \ {c} :
                      ReceivesOne(m, Packet("viewer-left", [socketId |-> c],
                                            StreamRoom(id), c))
          /\ c \notin rooms'[StreamRoom(id)] =>
                \A k \in 1..Len(NewPackets(c)) :
                    NewPackets(c)[k].room # StreamRoom(id)]_vars

\* A joined stream:x after B and left again: B saw it come and go
C6_Witness ==
    /\ rooms["stream:x"] = {"B"}
    /\ nEvents = 3
    /\ inbox["B"] = <<Packet("viewer-joined", [socketId |-> "A"], "stream:x", "A"),
                      Packet("viewer-left", [socketId |-> "A"], "stream:x", "A")>>
    /\ inbox["A"] = <<>>

(* C7: every connection is written the packets of successive broadcasts in *)
(* the order of the broadcasts: a step leaves what a connection was sent   *)
(* before in place and puts the packet it dispatches behind all of it.     *)
C7_FifoPerRecipient ==
    [][\A c \in Conns :
          \/ inbox'[c] = inbox[c]
          \/ /\ Len(inbox'[c]) = Len(inbox[c]) + 1
             /\ SubSeq(inbox'[c], 1, Len(inbox[c])) = inbox[c]]_vars

\* B was sent A's two typing events for conversation:x, on then off
C7_Witness ==
    /\ nEvents = 3
    /\ inbox["B"] = <<Packet("user-typing", TypingOn, "conversation:x", "A"),
                      Packet("user-typing", TypingOff, "conversation:x", "A")>>

(* C8: a packet of a broadcast to a room is written only to connections    *)
(* that are connected and members of that room when the event is handled.  *)
C8_RoomIsolation ==
    [][\A c \in Conns :
          \A k \in 1..Len(NewPackets(c)) :
              /\ c \in rooms[NewPackets(c)[k].room]
              /\ c \in rooms'[NewPackets(c)[k].room]
              /\ status[c] = "connected"]_vars

\* C's typing for conversation:x reached A, in that room, and not B, who is
\* in another conversation
C8_Witness ==
    /\ rooms["conversation:x"] = {"A"}
    /\ rooms["conversation:undefined"] = {"B"}
    /\ nEvents = 3
    /\ inbox["A"] = <<Packet("user-typing", TypingOn, "conversation:x", "C")>>
    /\ inbox["B"] = <<>>

(* C9: for every identifier the user, conversation and stream rooms are    *)
(* three different rooms; a join changes the member set of no room of      *)
(* another address space; and a broadcast into a conversation or a stream  *)
(* writes nothing to a connection outside that very room.                  *)
C9_NamespaceSeparation ==
    [][/\ \A id \in IdArgs :
             /\ UserRoom(id) # ConversationRoom(id)
             /\ UserRoom(id) # StreamRoom(id)
             /\ ConversationRoom(id) # StreamRoom(id)
       /\ rooms' # rooms => \A c \in Conns, id \in IdArgs :
             /\ Join(c, id) =>
                   \A r \in ConversationRooms \cup StreamRooms : rooms'[r] = rooms[r]
             /\ JoinConversation(c, id) =>
                   \A r \in UserRooms \cup StreamRooms : rooms'[r] = rooms[r]
             /\ JoinStream(c, id) =>
                   \A r \in UserRooms \cup ConversationRooms : rooms'[r] = rooms[r]
       /\ inbox' # inbox => \A c \in Conns, id \in IdArgs :
             /\ \A p \in TypingPayloads :
                   (Destructurable(p) /\ p.v.conversationId = id /\ Typing(c, p)) =>
                       \A m \in Conns \ rooms[ConversationRoom(id)] : ReceivesNothing(m)
             /\ \A p \in ChatPayloads :
                   (Destructurable(p) /\ p.v.streamId = id /\ StreamChat(c, p)) =>
                       \A m \in Conns \ rooms[StreamRoom(id)] : ReceivesNothing(m)
             /\ \A p \in ReactionPayloads :
                   (Destructurable(p) /\ p.v.streamId = id /\ StreamReaction(c, p)) =>
                       \A m \in Conns \ rooms[StreamRoom(id)] : ReceivesNothing(m)
             /\ (JoinStream(c, id) \/ LeaveStream(c, id)) =>
                   \A m \in Conns \ rooms[StreamRoom(id)] : ReceivesNothing(m)]_vars

\* A joined user:x and nothing else, B conversation:x; C's typing for
\* conversation x reached B and not A
C9_Witness ==
    /\ rooms["user:x"] = {"A"}
    /\ rooms["conversation:x"] = {"B"}
    /\ rooms["stream:x"] = {}
    /\ sids["A"] = {"A", "user:x"}
    /\ nEvents = 3
    /\ inbox["B"] = <<Packet("user-typing", TypingOn, "conversation:x", "C")>>
    /\ inbox["A"] = <<>>

(* C10: a join, join-conversation or join-stream event of a connection     *)
(* that is already in the room it names (it sent the same event before)    *)
(* leaves every room's member set as it was.                               *)
C10_JoinIdempotent ==
    [][\A c \in Conns : Handles(c) => \A id \in IdArgs :
          /\ (c \in rooms[UserRoom(id)] /\ Join(c, id)) =>
                (rooms' = rooms /\ sids' = sids)
          /\ (c \in rooms[ConversationRoom(id)] /\ JoinConversation(c, id)) =>
                (rooms' = rooms /\ sids' = sids)
          /\ (c \in rooms[StreamRoom(id)] /\ JoinStream(c, id)) =>
                (rooms' = rooms /\ sids' = sids)]_vars

\* A sent join-stream for stream:x twice in a row (B, in the room, was told
\* both times) and the room holds A once
C10_Witness ==
    /\ rooms["stream:x"] = {"A", "B"}
    /\ sids["A"] = {"A", "stream:x"}
    /\ nEvents = 3
    /\ inbox["B"] = <<Packet("viewer-joined", [socketId |-> "A"], "stream:x", "A"),
                      Packet("viewer-joined", [socketId |-> "A"], "stream:x", "A")>>

C13_ErrorIsolation ==
    [][\A c \in Conns : Handles(c) =>
          ((\/ \E p \in TypingPayloads : Typing(c, p)
            \/ \E p \in ChatPayloads : StreamChat(c, p)
            \/ \E p \in ReactionPayloads : StreamReaction(c, p)) =>
              /\ ~crashed'
              /\ \A m \in Conns \ {c} :
                    sids'[m] = sids[m] /\ status'[m] = status[m])]_vars

\* the same, for events that carry an object: these are isolated
C13_ObjectPayloadsIsolated ==
    [][\A c \in Conns : Handles(c) =>
          ((\/ \E p \in TypingPayloads : Destructurable(p) /\ Typing(c, p)
            \/ \E p \in ChatPayloads : Destructurable(p) /\ StreamChat(c, p)
            \/ \E p \in ReactionPayloads : Destructurable(p) /\ StreamReaction(c, p)) =>
              /\ ~crashed'
              /\ \A m \in Conns \ {c} :
                    sids'[m] = sids[m] /\ status'[m] = status[m])]_vars


(* C14: an event that lacks its required id (join, join-conversation or    *)
(* join-stream with no argument; typing, stream-chat or stream-reaction    *)
(* whose object has no conversationId / streamId) is dropped: no room      *)
(* membership changes, nothing is written to any connection and the sender *)
(* stays connected.                                                        *)
C14_MalformedDropped ==
    [][\A c \in Conns : Handles(c) =>
          ((\/ Join(c, Undefined)
            \/ JoinConversation(c, Undefined)
            \/ JoinStream(c, Undefined)
            \/ \E p \in TypingPayloads :
                  Destructurable(p) /\ p.v.conversationId = Undefined /\ Typing(c, p)
            \/ \E p \in ChatPayloads :
                  Destructurable(p) /\ p.v.streamId = Undefined /\ StreamChat(c, p)
            \/ \E p \in ReactionPayloads :
                  Destructurable(p) /\ p.v.streamId = Undefined /\ StreamReaction(c, p)) =>
              /\ rooms' = rooms /\ sids' = sids
              /\ inbox' = inbox
              /\ status'[c] = "connected")]_vars

\* what does hold of such events: the sender stays connected, the process
\* runs on
C14_MalformedKeepsConnection ==
    [][\A c \in Conns : Handles(c) =>
          ((\/ Join(c, Undefined)
            \/ JoinConversation(c, Undefined)
            \/ JoinStream(c, Undefined)
            \/ \E p \in TypingPayloads :
                  Destructurable(p) /\ p.v.conversationId = Undefined /\ Typing(c, p)
            \/ \E p \in ChatPayloads :
                  Destructurable(p) /\ p.v.streamId = Undefined /\ StreamChat(c, p)
            \/ \E p \in ReactionPayloads :
                  Destructurable(p) /\ p.v.streamId = Undefined /\ StreamReaction(c, p)) =>
              (status'[c] = "connected" /\ ~crashed'))]_vars

\* a typing event without conversationId reached a member of the room
\* "conversation:undefined"
C14_DeliveryReached ==
    /\ rooms["conversation:undefined"] = {"B"}
    /\ inbox["B"] = <<Packet("user-typing", TypingOn, "conversation:undefined", "A")>>


(* C15: a typing event for a conversation writes user-typing packets only  *)
(* when its sender is in the conversation room; sent by a connection that  *)
(* is not in the room, it writes nothing to anyone.                        *)
C15_TypingNeedsMembership ==
    [][\A c \in Conns : Handles(c) => \A p \in TypingPayloads :
          (/\ Destructurable(p)
           /\ c \notin rooms[ConversationRoom(p.v.conversationId)]
           /\ Typing(c, p)) => inbox' = inbox]_vars


(* C16: a connected client that is not in a stream room can send           *)
(* stream-chat or stream-reaction naming the stream: every member of the   *)
(* room is written the chat-message or reaction, the sender nothing.       *)
C16_StreamSenderNotVerified ==
    [][\A c \in Conns : Handles(c) =>
          /\ \A p \in ChatPayloads :
                (/\ Destructurable(p)
                 /\ c \notin rooms[StreamRoom(p.v.streamId)]
                 /\ StreamChat(c, p)) =>
                    /\ ReceivesNothing(c)
                    /\ \A m \in rooms[StreamRoom(p.v.streamId)] :
                          /\ Len(NewPackets(m)) = 1
                          /\ NewPackets(m)[1].name = "chat-message"
                          /\ NewPackets(m)[1].data = p.v.message
                          /\ NewPackets(m)[1].from = c
          /\ \A p \in ReactionPayloads :
                (/\ Destructurable(p)
                 /\ c \notin rooms[StreamRoom(p.v.streamId)]
                 /\ StreamReaction(c, p)) =>
                    /\ ReceivesNothing(c)
                    /\ \A m \in rooms[StreamRoom(p.v.streamId)] :
                          /\ Len(NewPackets(m)) = 1
                          /\ NewPackets(m)[1].name = "reaction"
                          /\ NewPackets(m)[1].data.emoji = p.v.emoji
                          /\ NewPackets(m)[1].from = c]_vars

\* A never joined stream:x; its reaction reached B and C, the members
C16_Witness ==
    /\ rooms["stream:x"] = {"B", "C"}
    /\ sids["A"] = {"A"}
    /\ inbox["A"] = <<>>
    /\ inbox["B"] = <<Packet("reaction", [emoji |-> Str("heart"), userId |-> Str("u1")],
                             "stream:x", "A")>>
    /\ inbox["C"] = <<Packet("viewer-joined", [socketId |-> "B"], "stream:x", "B"),
                      Packet("reaction", [emoji |-> Str("heart"), userId |-> Str("u1")],
                             "stream:x", "A")>>


\* the rooms of the three address spaces (not the rooms of the socket ids)
NamedRooms == UserRooms \cup ConversationRooms \cup StreamRooms

\* the step is a join, leave or disconnect event of connection c
MembershipEventOf(c) ==
    \/ \E id \in IdArgs :
          \/ Join(c, id) \/ JoinConversation(c, id) \/ JoinStream(c, id)
          \/ LeaveConversation(c, id) \/ LeaveStream(c, id)
    \/ Disconnect(c)

\* the step is a typing, stream-chat or stream-reaction event of c
BroadcastEventOf(c) ==
    \/ \E p \in TypingPayloads : Typing(c, p)
    \/ \E p \in ChatPayloads : StreamChat(c, p)
    \/ \E p \in ReactionPayloads : StreamReaction(c, p)

MembershipFrame ==
    /\ \A c \in Conns :
          (Handles(c) /\ BroadcastEventOf(c)) =>
              \A r \in NamedRooms : rooms'[r] = rooms[r]
    /\ (\E r \in NamedRooms : rooms'[r] # rooms[r]) =>
          \E c \in Conns :
              /\ MembershipEventOf(c)
              /\ \A m \in Conns \ {c}, r \in NamedRooms :
                    (m \in rooms'[r]) <=> (m \in rooms[r])

(* C17: typing, stream-chat and stream-reaction events leave every room's  *)
(* member set unchanged; a member set changes only in a join,              *)
(* join-conversation, join-stream, leave-conversation, leave-stream or     *)
(* disconnect step, and only as to the connection that sent it.            *)
C17_MembershipFrame == [][MembershipFrame]_vars

\* the frame holds of every step that does not end the process
C17_FrameWhileRunning == [][~crashed' => MembershipFrame]_vars

\* B was in stream:x when A's stream-chat without argument ended the process:
\* the room is empty and B is off the server
C17_CrashEmptiedRoom ==
    /\ crashed
    /\ rooms["stream:x"] = {}
    /\ status["B"] = "disconnected"
    /\ inbox["B"] = <<Packet("viewer-joined", [socketId |-> "A"], "stream:x", "A")>>
    /\ nEvents = 3


(* C18: a join-stream or leave-stream event is handled in one step, its    *)
(* membership change and its fan-out together.  So when two connections    *)
(* join an empty stream one after the other, the first join writes nothing *)
(* to anyone, and the second writes viewer-joined to the first joiner and  *)
(* nothing to the second.                                                  *)
C18_JoinLeaveAtomic ==
    [][\A c \in Conns : Handles(c) => \A id \in IdArgs :
          /\ JoinStream(c, id) =>
                /\ rooms'[StreamRoom(id)] = rooms[StreamRoom(id)] \cup {c}
                /\ rooms[StreamRoom(id)] = {} => inbox' = inbox
                /\ \A y \in Conns \ {c} :
                      rooms[StreamRoom(id)] = {y} =>
                          /\ NewPackets(y) =
                                <<Packet("viewer-joined", [socketId |-> c],
                                         StreamRoom(id), c)>>
                          /\ NewPackets(c) = <<>>
          /\ LeaveStream(c, id) =>
                /\ rooms'[StreamRoom(id)] = rooms[StreamRoom(id)] \ {c}
                /\ \A y \in Conns :
                      Len(NewPackets(y)) =
                          IF y \in rooms'[StreamRoom(id)] THEN 1 ELSE 0]_vars

\* A joined the empty stream:x, then B: A was told of B, B of nobody
C18_Witness ==
    /\ rooms["stream:x"] = {"A", "B"}
    /\ nEvents = 2
    /\ inbox["A"] = <<Packet("viewer-joined", [socketId |-> "B"], "stream:x", "B")>>
    /\ inbox["B"] = <<>>
    /\ inbox["C"] = <<>>


(* C19: in every reachable state connection c is in room r's member set    *)
(* exactly when r is in c's membership set, only connected connections are *)
(* in any member set, and a room that all its members have left or         *)
(* disconnected from has the empty member set.                             *)
C19_MembershipConsistent ==
    /\ \A c \in Conns, r \in RoomNames : (c \in rooms[r]) <=> (r \in sids[c])
    /\ \A c \in Conns :
          /\ sids[c] \subseteq RoomNames
          /\ status[c] # "connected" => sids[c] = {}
          /\ status[c] = "connected" => c \in rooms[c]
    /\ \A r \in RoomNames :
          (\A c \in Conns : status[c] # "connected" \/ r \notin sids[c]) => rooms[r] = {}

\* stream:x held A and B (A was told of B); A disconnected and B left, and
\* the room is empty
C19_Witness ==
    /\ rooms["stream:x"] = {}
    /\ status["A"] = "disconnected"
    /\ status["B"] = "connected"
    /\ sids["B"] = {"B"}
    /\ ~crashed
    /\ nEvents = 3
    /\ inbox["A"] = <<Packet("viewer-joined", [socketId |-> "B"], "stream:x", "B")>>
    /\ inbox["B"] = <<>>


(* C20: a leave-stream event of a connection that is not in the stream     *)
(* room has no effect: no viewer-left packet is written to anyone.         *)
C20_LeaveByNonMemberSilent ==
    [][\A c \in Conns : Handles(c) => \A id \in IdArgs :
          (c \notin rooms[StreamRoom(id)] /\ LeaveStream(c, id)) =>
              inbox' = inbox]_vars

\* what does hold of such an event: no member set changes
C20_LeaveByNonMemberKeepsRooms ==
    [][\A c \in Conns : Handles(c) => \A id \in IdArgs :
          (c \notin rooms[StreamRoom(id)] /\ LeaveStream(c, id)) =>
              (rooms' = rooms /\ sids' = sids)]_vars

\* B, alone in stream:x, was told that A left, and A was never in the room
C20_BogusViewerLeft ==
    /\ rooms["stream:x"] = {"B"}
    /\ nEvents = 2
    /\ inbox["B"] = <<Packet("viewer-left", [socketId |-> "A"], "stream:x", "A")>>


(* C21: after every save of a Post, the stored likeCount is the number of  *)
(* entries of the stored likes, and the stored commentCount the number of  *)
(* entries of the stored comments, whatever the counters were before.      *)
C21_CountsFollowArrays ==
    [][SavePost =>
          /\ post'.db.likeCount = Len(post'.db.likes.v)
          /\ post'.db.commentCount = Len(post'.db.comments.v)]_vars

(* C21, amended: after a save of a Post that holds its likes array in      *)
(* memory, likeCount is the number of entries of likes, in memory and as   *)
(* stored, whatever it was before; the same for comments and commentCount; *)
(* the counter of an array that is not in memory is left as it was.        *)
C21_CountsFollowLoadedArrays ==
    [][SavePost =>
          /\ IF Truthy(post.doc.likes)
             THEN /\ post'.doc.likeCount = Len(post'.doc.likes.v)
                  /\ post'.db.likeCount = Len(post'.db.likes.v)
             ELSE post'.db.likeCount = post.db.likeCount
          /\ IF Truthy(post.doc.comments)
             THEN /\ post'.doc.commentCount = Len(post'.doc.comments.v)
                  /\ post'.db.commentCount = Len(post'.db.comments.v)
             ELSE post'.db.commentCount = post.db.commentCount]_vars

\* a post with one like and two comments was saved: both counters follow
C21_Witness ==
    /\ post.saved
    /\ post.doc.likes = Arr(<<"e">>)
    /\ post.doc.comments = Arr(<<"e", "e">>)
    /\ post.db.likeCount = 1
    /\ post.db.commentCount = 2

\* a post loaded without its likes was saved: one like is stored, and the
\* stored counter says two
C21_StaleCounter ==
    /\ post.saved
    /\ ~Truthy(post.doc.likes)
    /\ post.db.likes = Arr(<<"e">>)
    /\ post.db.likeCount = 2

\* the lowercased #word tokens that occur in a string: a "#", then a run of
\* word characters that cannot be made longer
Tokens(str) ==
    {ToLowerCase(SubSeq(str, p[1] + 1, p[2])) :
        p \in {q \in (1..Len(str)) \X (1..Len(str)) :
                  /\ q[1] < q[2]
                  /\ str[q[1]] = "#"
                  /\ \A k \in (q[1] + 1)..q[2] : IsWordChar(str[k])
                  /\ q[2] = Len(str) \/ ~IsWordChar(str[q[2] + 1])}}

\* the array holds exactly the elements of the set, each once
ArrayOfSet(arr, set) ==
    /\ {arr[i] : i \in 1..Len(arr)} = set
    /\ \A i, j \in 1..Len(arr) : arr[i] = arr[j] => i = j

(* C22: after a save of a Post with modified content, hashtags holds the   *)
(* lowercased #word tokens of the new content, each once, and is empty     *)
(* when the new content has no hashtag.                                    *)
C22_HashtagsFollowContent ==
    [][(SavePost /\ post.doc.contentModified) =>
          ArrayOfSet(post'.doc.hashtags, Tokens(post.doc.content))]_vars

\* what holds: when the new content has a hashtag, hashtags is replaced by
\* its tokens; when it has none, hashtags is left as it was
C22_HashtagsReplacedOrKept ==
    [][(SavePost /\ post.doc.contentModified) =>
          IF Tokens(post.doc.content) # {}
          THEN ArrayOfSet(post'.doc.hashtags, Tokens(post.doc.content))
          ELSE post'.doc.hashtags = post.doc.hashtags]_vars

\* the saved content is "a", the hashtags of the content before it remain
C22_StaleHashtags ==
    /\ post.saved
    /\ post.doc.content = <<"a">>
    /\ post.doc.hashtags = << <<"a">> >>

\* the two tags of "#a#A" fold into one
C22_FoldedTags ==
    /\ post.saved
    /\ post.doc.content = <<"#", "a", "#", "A">>
    /\ post.doc.hashtags = << <<"a">> >>

(* C23: after a save of a User in which followerCount, followersCount or   *)
(* both were modified, the two counters are equal.                         *)
C23_FollowerCountsMirror ==
    [][(SaveUser /\ user.modified \cap {"followerCount", "followersCount"} # {}) =>
          user'.followerCount = user'.followersCount]_vars

\* both counters were 0; a save brought both to 2
C23_Witness ==
    /\ user.saved
    /\ user.followerCount = 2
    /\ user.followersCount = 2

(* C28: two User documents without a username, saved at the same time,     *)
(* never both end their saves holding the same generated username.         *)
C28_GeneratedUsernamesDiffer ==
    \A d, e \in Docs :
        (/\ d # e
         /\ signup.docs[d].pc \in {"saved", "rejected"}
         /\ signup.docs[e].pc \in {"saved", "rejected"})
            => signup.docs[d].username # signup.docs[e].username

\* what holds: no two documents are stored under one username (the unique
\* index), and a document is refused only for a username the other one took
C28_StoredUsernamesDiffer ==
    \A d, e \in Docs :
        /\ (d # e /\ signup.docs[d].pc = "saved" /\ signup.docs[e].pc = "saved")
              => signup.docs[d].username # signup.docs[e].username
        /\ signup.docs[d].pc = "rejected" => signup.docs[d].username \in signup.db

\* what holds: the loop ends; the counter never passes the number of stored
\* usernames by more than one
C28_LoopBounded ==
    \A d \in Docs : signup.docs[d].counter <= Cardinality(signup.db) + 1

\* both documents generated "j"; d1 is stored, the save of d2 was refused
C28_DuplicateRefused ==
    /\ signup.docs["d1"].pc = "saved"
    /\ signup.docs["d2"].pc = "rejected"
    /\ signup.docs["d1"].username = "j"
    /\ signup.docs["d2"].username = "j"

(* C24: once initializePushNotifications has the permission and has called *)
(* register, every token the platform emits is dispatched as a             *)
(* cybev:pushToken event: when the function has returned true, the tokens  *)
(* dispatched are the tokens emitted.                                      *)
C24_EveryTokenForwarded ==
    push.result = "true" => push.dispatched = push.emitted

\* what holds: a token emitted once the listener is there is dispatched in
\* the same step, and on a platform that retains events no token is lost
C24_ForwardedWhileListening ==
    [][/\ push.listening =>
             \A token \in PushTokens :
                 Registration(token) => push'.dispatched = Append(push.dispatched, token)
       /\ push.retains => push'.dispatched \o push'.retained = push'.emitted]_vars

\* t1 was emitted before register() resolved and found no listener: the
\* function returned true, t2 was dispatched, t1 never
C24_TokenLost ==
    /\ push.result = "true"
    /\ push.emitted = <<"t1", "t2">>
    /\ push.dispatched = <<"t2">>

(* C25: a join-stream event of a connection that is already in the stream  *)
(* room leaves every member set as it was and still writes one more        *)
(* viewer-joined packet with its socket id to every other member, so a     *)
(* member can hold more viewer-joined packets for a viewer than the viewer *)
(* made entries into the room.                                             *)
C25_RepeatedJoinAnnounced ==
    [][\A c \in Conns : Handles(c) => \A id \in IdArgs :
          (c \in rooms[StreamRoom(id)] /\ JoinStream(c, id)) =>
              /\ rooms' = rooms
              /\ sids' = sids
              /\ \A m \in rooms[StreamRoom(id)] \ {c} :
                    ReceivesOne(m, Packet("viewer-joined", [socketId |-> c],
                                          StreamRoom(id), c))]_vars

\* A entered stream:x once, after B, and sent join-stream twice: B holds two
\* viewer-joined packets for A
C25_Witness ==
    /\ rooms["stream:x"] = {"A", "B"}
    /\ nEvents = 3
    /\ inbox["A"] = <<>>
    /\ inbox["B"] = <<Packet("viewer-joined", [socketId |-> "A"], "stream:x", "A"),
                     Packet("viewer-joined", [socketId |-> "A"], "stream:x", "A")>>

(* C26: the disconnect of a connection writes no packet to any connection; *)
(* the viewers that stay in a stream room get no viewer-left for it.       *)
C26_DisconnectSilent ==
    [][\A c \in Conns : Disconnect(c) => inbox' = inbox]_vars

\* A joined stream:x after B and disconnected without leave-stream: B holds
\* the viewer-joined packet and nothing else
C26_Witness ==
    /\ status["A"] = "disconnected"
    /\ ~crashed
    /\ rooms["stream:x"] = {"B"}
    /\ nEvents = 2
    /\ inbox["A"] = <<>>
    /\ inbox["B"] = <<Packet("viewer-joined", [socketId |-> "A"], "stream:x", "A")>>

(* C27: join is unconditional.  Every connected socket can join every user *)
(* room; the join adds it to the room beside the sockets already there and *)
(* beside the user rooms it is already in.                                 *)
C27_JoinUnconditional ==
    [][\A c \in Conns : Handles(c) => \A u \in IdArgs :
          /\ ENABLED Join(c, u)
          /\ Join(c, u) =>
                /\ rooms'[UserRoom(u)] = rooms[UserRoom(u)] \cup {c}
                /\ sids'[c] = sids[c] \cup {UserRoom(u)}]_vars

\* A and B are both in user:x, and A is in a second user room as well
C27_Witness ==
    /\ rooms["user:x"] = {"A", "B"}
    /\ {"user:x", "user:undefined"} \subseteq sids["A"]
    /\ nEvents = 3

\* the token of the request that was answered last
LastToken == TokenOf(http.req.auth)

\* the step answers a request
Answers == http'.now # http.now

(* C29: on the four routes behind verifyToken, a request without token or  *)
(* with a token that fails verification is answered 401 and changes no     *)
(* user document; a request with a valid token changes at most the         *)
(* document whose id the token carries.                                    *)
C29_AuthenticatedMutationOnly ==
    [][Answers =>
          LET token == TokenOf(http'.req.auth)
          IN IF ~token.present \/ ~token.verifies
             THEN /\ http'.status = 401
                  /\ http'.store = http.store
             ELSE \A id \in StoredIds \ {token.id} :
                     http'.store[id] = http.store[id]]_vars

\* PUT /profile with a name and a token for u1 that fails verification:
\* 401, no document changed
C29_Witness ==
    /\ http.now = 1
    /\ http.req.route = "PUT /profile"
    /\ "name" \in DOMAIN http.req.body
    /\ LastToken.present /\ ~LastToken.verifies /\ LastToken.id = "u1"
    /\ http.status = 401
    /\ \A id \in StoredIds, f \in DocFields \ {"updatedAt"} : http.store[id][f] = "old"

\* a cover was uploaded with a valid token of u1: u1 has it, u2 is as it was
C29_WitnessOwnDocument ==
    /\ http.now = 1
    /\ http.req.route = "POST /upload-cover"
    /\ LastToken.verifies /\ LastToken.id = "u1"
    /\ http.status = 200
    /\ http.store["u1"].coverImage = "new"
    /\ \A f \in DocFields : http.store["u2"][f] = IF f = "updatedAt" THEN 0 ELSE "old"

\* PUT /profile of an authenticated request: the fields in fields that the
\* body holds take the value of the body, the other fields in fields keep
\* theirs, the other documents are as they were; 404 and no change when the
\* id of the token is the id of no user
ProfileFrame(fields) ==
    (Answers /\ http'.req.route = "PUT /profile" /\ TokenOf(http'.req.auth).verifies) =>
        LET id == TokenOf(http'.req.auth).id
            body == http'.req.body
        IN IF id \in StoredIds
           THEN /\ http'.status = 200
                /\ \A f \in fields :
                      http'.store[id][f] =
                          IF f \in DOMAIN body THEN body[f] ELSE http.store[id][f]
                /\ \A other \in StoredIds \ {id} : http'.store[other] = http.store[other]
           ELSE /\ http'.status = 404
                /\ http'.store = http.store

(* C30: PUT /profile changes only the fields among name, bio, location and *)
(* website that the body holds; every other field of the document is left  *)
(* unchanged; 404 and no document changed when the user does not exist.    *)
C30_ProfileFrame == [][ProfileFrame(DocFields)]_vars

(* C30, amended: as C30 for every field but updatedAt, which the update     *)
(* sets to the time of the request.                                        *)
C30_ProfileFrameButUpdatedAt ==
    [][/\ ProfileFrame(DocFields \ {"updatedAt"})
       /\ (Answers /\ http'.req.route = "PUT /profile" /\ http'.status = 200) =>
             http'.store[TokenOf(http'.req.auth).id].updatedAt = http'.now]_vars

\* PUT /profile of u1 with a bio only: the bio is new, the rest is old
C30_Witness ==
    /\ http.now = 1
    /\ http.req.route = "PUT /profile"
    /\ DOMAIN http.req.body = {"bio"}
    /\ LastToken.verifies /\ LastToken.id = "u1"
    /\ http.status = 200
    /\ http.store["u1"].bio = "new"
    /\ \A f \in DocFields \ {"bio", "updatedAt"} : http.store["u1"][f] = "old"

\* PUT /profile with a valid token of an id that no user has: 404
C30_WitnessNotFound ==
    /\ http.now = 1
    /\ http.req.route = "PUT /profile"
    /\ LastToken.verifies /\ LastToken.id = "u9"
    /\ http.status = 404
    /\ \A id \in StoredIds : http.store[id].updatedAt = 0


====
